---- MODULE Spec2Model ----
(***************************************************************************)
(* ADUI data layer: the schema adapter (MetadataAdapter) with its static   *)
(* embedded-reference map, the External provider with its TTL cache, the   *)
(* JSON-import provider, the reference lookups of the Mock and Remote-API  *)
(* providers, and the React layer that watches the active provider         *)
(* (DataContext, useConnectionMonitor, useWindowData, App, form submit).   *)
(*                                                                         *)
(* A missing JSON property (undefined) is the empty string or an explicit  *)
(* has-flag; `a || b` is OrElse(a, b).  Asynchronous methods are split at  *)
(* their await on I/O: a Call action runs the code up to the fetch, a      *)
(* Response action runs the rest when the fetch settles.                   *)
(***************************************************************************)
EXTENDS Integers, Sequences, FiniteSets, TLC

VARIABLES
    now,                 \* Date.now(), in milliseconds
    embeddedReferences,  \* MetadataAdapter.embeddedReferences (static Map)
    cache,               \* ExternalMetadataProvider.cache (Map key -> {data, timestamp})
    pending,             \* fetches of the network providers that have not settled
    lastCall,            \* what the most recent provider step did and returned
    declared,            \* per provider: embedded ids declared by documents it adapted
    windowData,          \* JSONFileDataProvider.windowData
    referenceData,       \* JSONFileDataProvider.referenceData
    importDiagnostics,   \* JSONFileDataProvider.importDiagnostics
    importError,         \* the Error the last importJSONTemplate threw, if it threw
    adaptLog,            \* history: the last two adaptations of fetched windows
    apiCache,            \* APIDataProvider.cache (Map key -> data, no timestamp)
    provider,            \* DataContext: the active provider object
    providerType,        \* DataContext: provider.constructor.name
    connectionStatus,    \* useConnectionMonitor: connected | cached | offline | error
    activeWindowId,      \* App: the window shown, "" for null
    windowDef,           \* useWindowData: the loaded window, NoWindow for null
    loading,             \* useWindowData
    error,               \* useWindowData: the load error, "" for null
    pollTimer,           \* the monitor's intervals that are set and not cleared
    fallbackTimer,       \* App's auto-fallback setTimeout: none | pending | due
    checks,              \* monitor health checks awaiting provider.isConnected()
    discovers,           \* providers with a getAvailableWindows() call in flight
    loads,               \* getWindowDefinition() calls of loadWindow in flight
    testing,             \* DataContext's testConnection awaits isConnected()
    backend,             \* the metadata server: up | down
    stub,                \* the External provider is a stand-in whose isConnected may reject
    catalog,             \* the window lists the metadata server may answer GET /windows with
    logDepth,            \* how many completed health checks the history keeps
    checkLog,            \* history: the last completed health checks
    errorTicks,          \* history: grace periods the status has stayed error
    autoSwaps,           \* history: automatic swaps to Mock so far
    evaluated            \* history: the expressions a submit has handed to eval

provVars == <<now, embeddedReferences, cache, pending, lastCall, declared,
              windowData, referenceData, importDiagnostics, importError, adaptLog,
              apiCache>>

appVars == <<provider, providerType, connectionStatus, activeWindowId, windowDef,
             loading, error, pollTimer, fallbackTimer, checks, discovers, loads,
             testing, backend, stub, catalog, logDepth, checkLog, errorTicks,
             autoSwaps, evaluated>>

vars == <<provVars, appVars>>

---------------------------------------------------------------------------
(* JavaScript values *)

Absent == ""

OrElse(a, b) == IF a # Absent THEN a ELSE b

\* `${x}` in a template literal
Str(x) == IF x = Absent THEN "undefined" ELSE x

\* Map.set(k, v) on a map kept as a function over its keys
MapSet(m, k, v) == [x \in (DOMAIN m) \cup {k} |-> IF x = k THEN v ELSE m[x]]

EmptyMap == [x \in {} |-> <<>>]

\* String.prototype.endsWith
EndsWith(s, suffix) ==
    /\ Len(s) >= Len(suffix)
    /\ SubSeq(s, Len(s) - Len(suffix) + 1, Len(s)) = suffix

---------------------------------------------------------------------------
(* External documents (the wire shape of spec section 6) *)

Val(k, d, v) == [key |-> k, display |-> d, value |-> v]

NoReference == [present |-> FALSE, id |-> Absent, hasValues |-> FALSE, values |-> <<>>]

\* reference: { values: [...] } with no id
InlineRef(vals) == [present |-> TRUE, id |-> Absent, hasValues |-> TRUE, values |-> vals]

\* reference: { id, values: [...] }
IdRef(i, vals) == [present |-> TRUE, id |-> i, hasValues |-> TRUE, values |-> vals]

\* reference: { id } with no values: the list is the server's
PointerRef(i) == [present |-> TRUE, id |-> i, hasValues |-> FALSE, values |-> <<>>]

Field(f, ref, logic) ==
    [isNull |-> FALSE, fieldId |-> f, id |-> Absent, reference |-> ref,
     displayLogic |-> logic]

\* a null entry in a fields array
NullField ==
    [isNull |-> TRUE, fieldId |-> Absent, id |-> Absent, reference |-> NoReference,
     displayLogic |-> Absent]

Tab(t, fs) == [tabId |-> t, hasFields |-> TRUE, fields |-> fs]

Doc(w, n, ts) ==
    [windowId |-> w, id |-> Absent, name |-> n, hasTabs |-> TRUE, tabs |-> ts]

ValsA == <<Val("LOW", "Low", Absent), Val("HIGH", Absent, "High")>>
ValsB == <<Val("YES", "Yes", "y")>>
ValsR == <<Val("OK", Absent, "Okay")>>

\* W1: F1 carries an embedded reference, F2 none
DocA == Doc("W1", "Site Audit",
            << Tab("T1", << Field("F1", InlineRef(ValsA), Absent),
                            Field("F2", NoReference, "@F1@='LOW'") >>) >>)

\* W2: F1 carries a different embedded reference, F3 a reference with its own id
DocB == Doc("W2", "Stock Count",
            << Tab("T1", << Field("F1", InlineRef(ValsB), Absent) >>),
               Tab("T2", << Field("F3", IdRef("R1", ValsR), Absent) >>) >>)

\* W2, a later version: no embedded reference at all
DocC == Doc("W2", "Stock Count",
            << Tab("T1", << Field("F3", IdRef("R1", ValsR), Absent) >>) >>)

\* W3: the source gives F4's reference an id that ends in _EMBEDDED_REF
DocD == Doc("W3", "Asset Check",
            << Tab("T1", << Field("F4", IdRef("F4_EMBEDDED_REF", ValsR), Absent) >>) >>)

ServedDocs == {DocA, DocB, DocC, DocD}

WindowIds == {d.windowId : d \in ServedDocs}

---------------------------------------------------------------------------
(* MetadataAdapter *)

EmbeddedSuffix == "_EMBEDDED_REF"

isEmbeddedReference(referenceId) == EndsWith(referenceId, EmbeddedSuffix)

convertValue(value) == [key |-> value.key, value |-> OrElse(value.display, value.value)]

convertValues(values) == [i \in 1..Len(values) |-> convertValue(values[i])]

NoAdaptedReference == [present |-> FALSE, id |-> Absent, values |-> <<>>]

\* the reference id adaptReference gives a field
referenceIdOf(reference, fieldId) ==
    IF reference.id # Absent THEN reference.id ELSE Str(fieldId) \o EmbeddedSuffix

\* adaptReference: the adapted reference, and the static map after the call
adaptReference(reference, fieldId, emb) ==
    IF ~reference.present \/ ~reference.hasValues
    THEN [reference |-> NoAdaptedReference, emb |-> emb]
    ELSE [reference |-> [present |-> TRUE,
                         id |-> referenceIdOf(reference, fieldId),
                         values |-> convertValues(reference.values)],
          emb |-> IF reference.id # Absent
                  THEN emb
                  ELSE MapSet(emb, referenceIdOf(reference, fieldId),
                              convertValues(reference.values))]

\* variant: the expression is carried into the adapted field
keptDisplayLogic(displayLogic) == displayLogic

adaptDisplayLogic(displayLogic) == Absent

adaptField(externalField, emb) ==
    LET fieldId == OrElse(externalField.fieldId, externalField.id)
        r == adaptReference(externalField.reference, fieldId, emb)
    IN  [field |-> [id |-> fieldId,
                    displayLogic |-> adaptDisplayLogic(externalField.displayLogic),
                    reference |-> r.reference],
         emb |-> r.emb]

\* externalTab.fields.map(adaptField), threading the static map left to right;
\* adaptField throws a TypeError on a null entry
RECURSIVE adaptFields(_, _)

\* the converted field h before the converted rest t
fieldsAfter(h, t) ==
    [threw |-> t.threw, fields |-> <<h.field>> \o t.fields, emb |-> t.emb]

restOfFields(fields, h) == fieldsAfter(h, adaptFields(Tail(fields), h.emb))

adaptFields(fields, emb) ==
    IF fields = <<>> THEN [threw |-> FALSE, fields |-> <<>>, emb |-> emb]
    ELSE IF Head(fields).isNull THEN [threw |-> TRUE, fields |-> <<>>, emb |-> emb]
    ELSE restOfFields(fields, adaptField(Head(fields), emb))

\* variant: only the first tab is converted
adaptFirstTab(tabs, emb) ==
    IF tabs = <<>> THEN [threw |-> FALSE, tabs |-> <<>>, emb |-> emb]
    ELSE LET h == adaptFields(Head(tabs).fields, emb)
         IN  [threw |-> h.threw,
              tabs |-> << [id |-> Head(tabs).tabId, fields |-> h.fields] >>,
              emb |-> h.emb]

\* externalWindow.tabs.map(adaptTab); a tab without a fields array throws
RECURSIVE adaptTabs(_, _)

\* adaptTab: the converted tab, with its converted fields h, before the rest t
tabsAfter(externalTab, h, t) ==
    [threw |-> t.threw,
     tabs |-> <<[id |-> externalTab.tabId, fields |-> h.fields]>> \o t.tabs,
     emb |-> t.emb]

\* a throw inside the tab's fields ends the conversion of the window
restOfTabs(tabs, h) ==
    IF h.threw THEN [threw |-> TRUE, tabs |-> <<>>, emb |-> h.emb]
    ELSE tabsAfter(Head(tabs), h, adaptTabs(Tail(tabs), h.emb))

adaptTabs(tabs, emb) ==
    IF tabs = <<>> THEN [threw |-> FALSE, tabs |-> <<>>, emb |-> emb]
    ELSE IF ~Head(tabs).hasFields THEN [threw |-> TRUE, tabs |-> <<>>, emb |-> emb]
    ELSE restOfTabs(tabs, adaptFields(Head(tabs).fields, emb))

\* variant: adaptWindowDefinition without the clear
keptReferences(emb) == emb

\* what adaptWindowDefinition starts from: this.embeddedReferences.clear()
clearedReferences(emb) == EmptyMap

NoWindow == [id |-> Absent, name |-> Absent, tabs |-> <<>>]

\* adaptWindowDefinition: the adapted window (or a throw) and the static map after
adaptWindowDefinition(externalWindow, emb) ==
    IF ~externalWindow.hasTabs
    THEN [threw |-> TRUE, window |-> NoWindow, emb |-> clearedReferences(emb)]
    ELSE LET t == adaptTabs(externalWindow.tabs, clearedReferences(emb))
         IN  [threw |-> t.threw,
              window |-> IF t.threw THEN NoWindow
                         ELSE [id |-> OrElse(externalWindow.windowId, externalWindow.id),
                               name |-> externalWindow.name,
                               tabs |-> t.tabs],
              emb |-> t.emb]

\* getEmbeddedReferenceValues: the values, or null
hasEmbeddedReference(emb, referenceId) == referenceId \in DOMAIN emb

getEmbeddedReferenceValues(emb, referenceId) ==
    IF hasEmbeddedReference(emb, referenceId)
    THEN [found |-> TRUE, values |-> emb[referenceId]]
    ELSE [found |-> FALSE, values |-> <<>>]

---------------------------------------------------------------------------
(* ExternalMetadataProvider *)

CacheTimeout == 5 * 60 * 1000

\* the clock moves in half-TTL steps, so that an age of exactly the TTL occurs
ClockStep == CacheTimeout \div 2

MaxClockSteps == 2

MaxPending == 2

windowKey(windowId) == "window_" \o windowId

refKey(referenceId) == "ref_" \o referenceId

\* a cache entry {data, timestamp}; data is a window or a value list
Entry(window, values, timestamp) ==
    [window |-> window, values |-> values, timestamp |-> timestamp]

\* variant: an entry still counts when its age equals the TTL
cacheHitInclusive(c, key, t) == key \in DOMAIN c /\ t - c[key].timestamp <= CacheTimeout

\* this.cache.has(key) && Date.now() - cached.timestamp < this.cacheTimeout
cacheHit(c, key, t) == key \in DOMAIN c /\ t - c[key].timestamp < CacheTimeout

Request(op, id) == [op |-> op, id |-> id]

NoDoc == [windowId |-> Absent, id |-> Absent, name |-> Absent, hasTabs |-> FALSE,
          tabs |-> <<>>]

\* a settled fetch: a 2xx response with its JSON body, a non-2xx response, or a
\* rejected promise (transport failure)
Response(status, doc, values) == [status |-> status, doc |-> doc, values |-> values]

Ok == "ok"
HttpError == "http_error"
NetworkError == "network_error"

Failure(status) == Response(status, NoDoc, <<>>)

Failures == {Failure(HttpError), Failure(NetworkError)}

\* what the metadata server may answer to GET /windows/:id
WindowResponses(windowId) ==
    Failures \cup { Response(Ok, d, <<>>) : d \in {x \in ServedDocs : x.windowId = windowId} }

ServedValues == { <<>>, <<[key |-> "OK", value |-> "Okay"]>> }

\* what it may answer to GET /references/:id
ReferenceResponses == Failures \cup { Response(Ok, NoDoc, v) : v \in ServedValues }

\* what it may answer to GET /health
HealthResponses == Failures \cup { Response(Ok, NoDoc, <<>>) }

\* the record of one provider step: the method, its argument, whether the call went
\* to the network, how it ended, what it returned, and the settled fetch's status
Call(op, id, fetch, status, outcome, window, values, connected) ==
    [op |-> op, id |-> id, fetch |-> fetch, status |-> status,
     outcome |-> outcome, window |-> window, values |-> values,
     connected |-> connected, message |-> Absent]

\* the embedded ids a document declares: fields with inline values and no reference id
DeclaredIds(doc) ==
    IF ~doc.hasTabs THEN {}
    ELSE { Str(OrElse(doc.tabs[i].fields[j].fieldId, doc.tabs[i].fields[j].id))
               \o "_EMBEDDED_REF" :
           <<i, j>> \in { <<a, b>> \in (1..Len(doc.tabs)) \X (1..4) :
                          /\ doc.tabs[a].hasFields
                          /\ b <= Len(doc.tabs[a].fields)
                          /\ doc.tabs[a].fields[b].reference.present
                          /\ doc.tabs[a].fields[b].reference.hasValues
                          /\ doc.tabs[a].fields[b].reference.id = Absent } }

AdaptRecord(doc, inFlight) == [doc |-> doc, inFlight |-> inFlight]

\* the history of adaptations: the latest two, each with the document adapted and
\* the windows whose fetch was still in flight when it ran
Adapted(log, doc, requests) ==
    LET record == AdaptRecord(doc, { q.id : q \in { x \in requests : x.op = "window" } })
    IN  IF Len(log) < 2 THEN Append(log, record) ELSE Append(Tail(log), record)

\* a call on the External provider leaves the JSON provider and the React layer alone
jsonUnchanged ==
    UNCHANGED <<windowData, referenceData, importDiagnostics, importError, apiCache,
                appVars>>

\* getWindowDefinition up to its fetch
GetWindowDefinitionCall(windowId) ==
    /\ IF cacheHit(cache, windowKey(windowId), now)
       THEN /\ lastCall' = Call("getWindowDefinition", windowId, FALSE, Absent, "return",
                                cache[windowKey(windowId)].window, <<>>, FALSE)
            /\ UNCHANGED pending
       ELSE /\ Request("window", windowId) \notin pending
            /\ Cardinality(pending) < MaxPending
            /\ pending' = pending \cup {Request("window", windowId)}
            /\ lastCall' = Call("getWindowDefinition", windowId, TRUE, Absent, "pending",
                                NoWindow, <<>>, FALSE)
    /\ UNCHANGED <<now, embeddedReferences, cache, declared, adaptLog>>
    /\ jsonUnchanged

\* variant: a failed fetch falls back on whatever the cache holds for the window
staleOnFailedFetch(c, windowId, cause) ==
    IF windowKey(windowId) \in DOMAIN c
    THEN Call("getWindowDefinition", windowId, TRUE, cause, "return",
              c[windowKey(windowId)].window, <<>>, FALSE)
    ELSE [Call("getWindowDefinition", windowId, TRUE, cause, "throw", NoWindow, <<>>,
               FALSE)
             EXCEPT !.message = "Failed to load window " \o windowId \o ": " \o cause]

\* the catch block of getWindowDefinition:
\* throw new Error(`Failed to load window ${windowId}: ${error.message}`)
failedFetch(c, windowId, cause) ==
    [Call("getWindowDefinition", windowId, TRUE, cause, "throw", NoWindow, <<>>, FALSE)
        EXCEPT !.message = "Failed to load window " \o windowId \o ": " \o cause]

\* getWindowDefinition from the settled fetch on: adapt, cache, return; or throw
GetWindowDefinitionResponse(windowId, response) ==
    /\ Request("window", windowId) \in pending
    /\ pending' = pending \ {Request("window", windowId)}
    /\ IF response.status # Ok
       THEN /\ lastCall' = failedFetch(cache, windowId, response.status)
            /\ UNCHANGED <<embeddedReferences, cache, declared, adaptLog>>
       ELSE LET r == adaptWindowDefinition(response.doc, embeddedReferences)
            IN  /\ embeddedReferences' = r.emb
                /\ adaptLog' = Adapted(adaptLog, response.doc, pending')
                /\ IF r.threw
                   THEN /\ lastCall' = failedFetch(cache, windowId, "TypeError")
                        /\ UNCHANGED <<cache, declared>>
                   ELSE /\ cache' = MapSet(cache, windowKey(windowId),
                                           Entry(r.window, <<>>, now))
                        /\ declared' = [declared EXCEPT
                                           !.ext = @ \cup DeclaredIds(response.doc)]
                        /\ lastCall' = Call("getWindowDefinition", windowId, TRUE,
                                            response.status, "return", r.window,
                                            <<>>, FALSE)
    /\ UNCHANGED now
    /\ jsonUnchanged

\* getReferenceValues up to its fetch: cache, then the embedded branch, then fetch
GetReferenceValuesCall(referenceId) ==
    /\ IF cacheHit(cache, refKey(referenceId), now)
       THEN /\ lastCall' = Call("getReferenceValues", referenceId, FALSE, Absent,
                                "return", NoWindow,
                                cache[refKey(referenceId)].values, FALSE)
            /\ UNCHANGED <<pending, cache>>
       ELSE IF isEmbeddedReference(referenceId)
       THEN LET e == getEmbeddedReferenceValues(embeddedReferences, referenceId)
            IN  /\ cache' = IF e.found
                            THEN MapSet(cache, refKey(referenceId),
                                        Entry(NoWindow, e.values, now))
                            ELSE cache
                /\ lastCall' = Call("getReferenceValues", referenceId, FALSE, Absent,
                                    "return", NoWindow, e.values, FALSE)
                /\ UNCHANGED pending
       ELSE /\ Request("ref", referenceId) \notin pending
            /\ Cardinality(pending) < MaxPending
            /\ pending' = pending \cup {Request("ref", referenceId)}
            /\ lastCall' = Call("getReferenceValues", referenceId, TRUE, Absent,
                                "pending", NoWindow, <<>>, FALSE)
            /\ UNCHANGED cache
    /\ UNCHANGED <<now, embeddedReferences, declared, adaptLog>>
    /\ jsonUnchanged

\* getReferenceValues from the settled fetch on: [] for a failure, else the body's
\* values (referenceData.values || []), cached
GetReferenceValuesResponse(referenceId, response) ==
    /\ Request("ref", referenceId) \in pending
    /\ pending' = pending \ {Request("ref", referenceId)}
    /\ IF response.status # Ok
       THEN /\ lastCall' = Call("getReferenceValues", referenceId, TRUE,
                                response.status, "return", NoWindow, <<>>, FALSE)
            /\ UNCHANGED cache
       ELSE /\ cache' = MapSet(cache, refKey(referenceId),
                               Entry(NoWindow, response.values, now))
            /\ lastCall' = Call("getReferenceValues", referenceId, TRUE,
                                response.status, "return", NoWindow,
                                response.values, FALSE)
    /\ UNCHANGED <<now, embeddedReferences, declared, adaptLog>>
    /\ jsonUnchanged

\* variant: a provider holding cached data reports itself connected
isConnectedOrCached(response, c) == response.status = Ok \/ DOMAIN c # {}

\* isConnected: what it returns for a settled GET /health
isConnectedResult(response, c) == response.status = Ok

IsConnectedCall ==
    /\ Request("health", Absent) \notin pending
    /\ Cardinality(pending) < MaxPending
    /\ pending' = pending \cup {Request("health", Absent)}
    /\ lastCall' = Call("isConnected", Absent, TRUE, Absent, "pending", NoWindow,
                        <<>>, FALSE)
    /\ UNCHANGED <<now, embeddedReferences, cache, declared, adaptLog>>
    /\ jsonUnchanged

IsConnectedResponse(response) ==
    /\ Request("health", Absent) \in pending
    /\ pending' = pending \ {Request("health", Absent)}
    /\ lastCall' = Call("isConnected", Absent, TRUE, response.status, "return",
                        NoWindow, <<>>, isConnectedResult(response, cache))
    /\ UNCHANGED <<now, embeddedReferences, cache, declared, adaptLog>>
    /\ jsonUnchanged

\* MetadataAdapter.clearEmbeddedReferences()
ClearEmbeddedReferences ==
    /\ embeddedReferences' = EmptyMap
    /\ lastCall' = Call("clearEmbeddedReferences", Absent, FALSE, Absent, "return",
                        NoWindow, <<>>, FALSE)
    /\ UNCHANGED <<now, cache, pending, declared, adaptLog>>
    /\ jsonUnchanged

AdvanceTime ==
    /\ now < MaxClockSteps * ClockStep
    /\ now' = now + ClockStep
    /\ UNCHANGED <<embeddedReferences, cache, pending, lastCall, declared, adaptLog>>
    /\ jsonUnchanged

---------------------------------------------------------------------------
(* JSONFileDataProvider: the import pipeline *)

Diag(stage, success) == [stage |-> stage, success |-> success]

\* what is handed to importJSONTemplate: the content given or read from the file,
\* whether it can be read and parsed, and the template it parses to
ImportInput(provided, readable, parseable, template) ==
    [provided |-> provided, readable |-> readable, parseable |-> parseable,
     template |-> template]

\* { name } only, and a document without a tabs array
DocNameOnly == [windowId |-> Absent, id |-> Absent, name |-> "Site Audit",
                hasTabs |-> TRUE, tabs |-> DocA.tabs]

DocNoTabs == [windowId |-> "W1", id |-> Absent, name |-> "Site Audit",
              hasTabs |-> FALSE, tabs |-> <<>>]

\* a null entry follows a field with inline values: the tabs pass validation
DocNullField == Doc("W4", "Broken",
                    << Tab("T1", << Field("F5", InlineRef(ValsB), Absent),
                                    NullField >>) >>)

\* a field with inline values and neither fieldId nor id
DocNoFieldId == Doc("W5", "Untitled",
                    << Tab("T1", << Field(Absent, InlineRef(ValsB), Absent) >>) >>)

\* a field whose reference names a list by id and carries no values
DocPointer == Doc("W6", "Lookup",
                  << Tab("T1", << Field("F6", PointerRef("R2"), Absent),
                                  Field("F7", IdRef("R1", ValsR), Absent) >>) >>)

\* { name } and nothing else
DocNoIdNoTabs == [windowId |-> Absent, id |-> Absent, name |-> "Stock Count",
                  hasTabs |-> FALSE, tabs |-> <<>>]

ImportTemplates ==
    {DocA, DocB, DocC, DocD, DocNameOnly, DocNoTabs, DocNoIdNoTabs, DocNullField,
     DocNoFieldId, DocPointer}

ImportInputs ==
    { ImportInput(TRUE, TRUE, TRUE, t) : t \in ImportTemplates }
    \cup { ImportInput(FALSE, FALSE, TRUE, DocA), ImportInput(TRUE, TRUE, FALSE, DocA) }

\* validateTemplateStructure: the tabs lacking an id or a fields array
invalidTabs(template) ==
    { i \in 1..Len(template.tabs) :
        template.tabs[i].tabId = Absent \/ ~template.tabs[i].hasFields }

\* variant: the validation does not look for the tabs array
structureErrorIgnoringTabs(template) ==
    IF OrElse(template.windowId, template.id) = Absent THEN "missing_id"
    ELSE IF template.name = Absent THEN "missing_name"
    ELSE Absent

\* validateTemplateStructure: "" when the template passes, else the error
structureError(template) ==
    IF OrElse(template.windowId, template.id) = Absent THEN "missing_id"
    ELSE IF template.name = Absent THEN "missing_name"
    ELSE IF ~template.hasTabs THEN "missing_tabs"
    ELSE IF invalidTabs(template) # {} THEN "invalid_tabs"
    ELSE Absent

\* name.toUpperCase().replace(/[^A-Z0-9]/g, '_') on the names of the model
slug(name) ==
    CASE name = "Site Audit" -> "SITE_AUDIT"
      [] name = "Stock Count" -> "STOCK_COUNT"
      [] OTHER -> name

\* extractAndAnalyzeWindowId: windowId, else id, else the slug of name
extractWindowId(template) ==
    IF template.windowId # Absent THEN template.windowId
    ELSE IF template.id # Absent THEN template.id
    ELSE IF template.name # Absent THEN slug(template.name)
    ELSE Absent

\* extractReferenceData: reference.id || `REF_${field.fieldId}` -> the raw values
RECURSIVE extractFieldReferences(_, _)
extractFieldReferences(fields, refs) ==
    IF fields = <<>> THEN refs
    ELSE LET f == Head(fields)
         IN  extractFieldReferences(Tail(fields),
                IF f.reference.present /\ f.reference.hasValues
                THEN MapSet(refs, OrElse(f.reference.id, "REF_" \o Str(f.fieldId)),
                            f.reference.values)
                ELSE refs)

RECURSIVE extractReferenceData(_, _)
extractReferenceData(tabs, refs) ==
    IF tabs = <<>> THEN refs
    ELSE extractReferenceData(Tail(tabs), extractFieldReferences(Head(tabs).fields, refs))

\* the stages in order; each yields the log it leaves and whether it failed
importStages(input) ==
    LET t == input.template
        start == << Diag("import_start", TRUE), Diag("file_access_check", TRUE) >>
        read == IF input.provided THEN << Diag("content_reading", TRUE) >>
                ELSE IF input.readable
                THEN << Diag("content_reading", TRUE), Diag("content_reading", TRUE) >>
                ELSE << Diag("content_reading", TRUE), Diag("content_reading", FALSE) >>
        parse == IF input.parseable
                 THEN << Diag("json_parsing", TRUE), Diag("json_parsing", TRUE) >>
                 ELSE << Diag("json_parsing", TRUE), Diag("json_parsing", FALSE) >>
        valid == IF structureError(t) = Absent
                 THEN << Diag("structure_validation", TRUE),
                         Diag("structure_validation", TRUE) >>
                 ELSE << Diag("structure_validation", TRUE),
                         Diag("structure_validation", FALSE) >>
        extract == IF extractWindowId(t) # Absent
                   THEN << Diag("windowid_extraction", TRUE),
                           Diag("windowid_extraction", TRUE),
                           Diag("windowid_analysis", TRUE) >>
                   ELSE << Diag("windowid_extraction", TRUE),
                           Diag("windowid_extraction", FALSE) >>
        adapted == adaptWindowDefinition(t, embeddedReferences)
        adapt == IF ~adapted.threw
                 THEN << Diag("metadata_adaptation", TRUE),
                         Diag("metadata_adaptation", TRUE) >>
                 ELSE << Diag("metadata_adaptation", TRUE),
                         Diag("metadata_adaptation", FALSE) >>
        store == << Diag("data_storage", TRUE), Diag("data_storage", TRUE),
                    Diag("reference_extraction", TRUE),
                    Diag("reference_extraction", TRUE),
                    Diag("import_complete", TRUE) >>
        failed == << Diag("import_failed", FALSE) >>
    IN  IF ~input.provided /\ ~input.readable
        THEN [log |-> start \o read \o failed, reached |-> "content_reading"]
        ELSE IF ~input.parseable
        THEN [log |-> start \o read \o parse \o failed, reached |-> "json_parsing"]
        ELSE IF structureError(t) # Absent
        THEN [log |-> start \o read \o parse \o valid \o failed,
              reached |-> "structure_validation"]
        ELSE IF extractWindowId(t) = Absent
        THEN [log |-> start \o read \o parse \o valid \o extract \o failed,
              reached |-> "windowid_extraction"]
        ELSE IF adapted.threw
        THEN [log |-> start \o read \o parse \o valid \o extract \o adapt \o failed,
              reached |-> "metadata_adaptation"]
        ELSE [log |-> start \o read \o parse \o valid \o extract \o adapt \o store,
              reached |-> "import_complete"]

\* an Error object as the caller of importJSONTemplate sees it: new Error(message)
\* has a message; diagnostics is what it carries of the diagnostic log
ImportError(message) ==
    [thrown |-> TRUE, message |-> "Failed to import JSON template: " \o message,
     diagnostics |-> <<>>]

NoImportError == [thrown |-> FALSE, message |-> Absent, diagnostics |-> <<>>]

\* the message of the error the failing stage throws
stageMessage(reached, problem) ==
        CASE reached = "content_reading" -> "Cannot read JSON file: ENOENT"
          [] reached = "json_parsing" -> "Invalid JSON format: SyntaxError"
          [] reached = "structure_validation" /\ problem = "missing_id" ->
                "Template missing required windowId or id field"
          [] reached = "structure_validation" /\ problem = "missing_name" ->
                "Template missing required name field"
          [] reached = "structure_validation" /\ problem = "missing_tabs" ->
                "Template missing required tabs array"
          [] reached = "structure_validation" /\ problem = "invalid_tabs" ->
                "tabs have invalid structure"
          [] reached = "windowid_extraction" ->
                "Cannot determine windowId from template"
          [] reached = "metadata_adaptation" -> "MetadataAdapter failed: TypeError"
          [] OTHER -> Absent

\* what importJSONTemplate throws after the run of its stages: nothing when the
\* import completes
importErrorOf(run, template) ==
    IF run.reached = "import_complete" THEN NoImportError
    ELSE ImportError(stageMessage(run.reached, structureError(template)))

\* whether the run got as far as calling MetadataAdapter.adaptWindowDefinition
reachedAdaptation(input) ==
    importStages(input).reached \in {"metadata_adaptation", "import_complete"}

\* importJSONTemplate(fileUri, jsonContent), start to end
ImportJSONTemplate(input) ==
    LET run == importStages(input)
        adapted == adaptWindowDefinition(input.template, embeddedReferences)
        done == run.reached = "import_complete"
    IN  /\ importDiagnostics' = run.log
        /\ embeddedReferences' =
              IF reachedAdaptation(input) THEN adapted.emb ELSE embeddedReferences
        /\ windowData' =
              IF done THEN MapSet(windowData, adapted.window.id, adapted.window)
              ELSE windowData
        /\ referenceData' =
              IF done THEN extractReferenceData(input.template.tabs, referenceData)
              ELSE referenceData
        /\ declared' =
              IF done
              THEN [declared EXCEPT !.json = @ \cup DeclaredIds(input.template)]
              ELSE declared
        /\ lastCall' = Call("importJSONTemplate", extractWindowId(input.template),
                            FALSE, Absent, IF done THEN "return" ELSE "throw",
                            IF done THEN adapted.window ELSE NoWindow, <<>>, FALSE)
        /\ importError' = importErrorOf(run, input.template)
        /\ UNCHANGED <<now, cache, pending, adaptLog, apiCache, appVars>>

\* a call on the JSON provider leaves the External provider and the React layer alone
externalUnchanged ==
    UNCHANGED <<now, cache, pending, declared, adaptLog, apiCache, appVars>>

\* JSONFileDataProvider.getWindowDefinition: the stored window, or a throw
JSONGetWindowDefinition(windowId) ==
    /\ lastCall' = IF windowId \in DOMAIN windowData
                   THEN Call("JSONFileDataProvider.getWindowDefinition", windowId,
                             FALSE, Absent, "return", windowData[windowId], <<>>, FALSE)
                   ELSE Call("JSONFileDataProvider.getWindowDefinition", windowId,
                             FALSE, Absent, "throw", NoWindow, <<>>, FALSE)
    /\ UNCHANGED <<embeddedReferences, windowData, referenceData, importDiagnostics,
                   importError>>
    /\ externalUnchanged

\* JSONFileDataProvider.getReferenceValues: what it returns
jsonReferenceValues(emb, refs, referenceId) ==
    LET e == getEmbeddedReferenceValues(emb, referenceId)
    IN  IF isEmbeddedReference(referenceId) /\ e.found THEN e.values
        ELSE IF referenceId \in DOMAIN refs THEN refs[referenceId]
        ELSE <<>>

JSONGetReferenceValues(referenceId) ==
    /\ lastCall' = Call("JSONFileDataProvider.getReferenceValues", referenceId, FALSE,
                        Absent, "return", NoWindow,
                        jsonReferenceValues(embeddedReferences, referenceData,
                                            referenceId), FALSE)
    /\ UNCHANGED <<embeddedReferences, windowData, referenceData, importDiagnostics,
                   importError>>
    /\ externalUnchanged

\* JSONFileDataProvider.clearImportedData
ClearImportedData ==
    /\ windowData' = EmptyMap
    /\ referenceData' = EmptyMap
    /\ importDiagnostics' = <<>>
    /\ lastCall' = Call("clearImportedData", Absent, FALSE, Absent, "return", NoWindow,
                        <<>>, FALSE)
    /\ UNCHANGED <<embeddedReferences, importError>>
    /\ externalUnchanged

---------------------------------------------------------------------------
(* APIDataProvider and MockDataProvider: reference lookups *)

\* a call on these providers leaves the other providers and the React layer alone
lookupUnchanged ==
    UNCHANGED <<now, embeddedReferences, cache, declared, windowData, referenceData,
                importDiagnostics, importError, adaptLog, appVars>>

\* variant: the failure of the fetch reaches the caller
apiReferenceRethrown(response) ==
    IF response.status # Ok THEN [outcome |-> "throw", values |-> <<>>, store |-> FALSE]
    ELSE [outcome |-> "return", values |-> response.values, store |-> TRUE]

\* APIDataProvider.getReferenceValues from the settled fetch on: a non-2xx response
\* throws inside the try, and the catch returns []
apiReferenceResult(response) ==
    IF response.status # Ok THEN [outcome |-> "return", values |-> <<>>, store |-> FALSE]
    ELSE [outcome |-> "return", values |-> response.values, store |-> TRUE]

\* APIDataProvider.getReferenceValues up to its fetch: the cache has no expiry
APIGetReferenceValuesCall(referenceId) ==
    /\ IF refKey(referenceId) \in DOMAIN apiCache
       THEN /\ lastCall' = Call("APIDataProvider.getReferenceValues", referenceId,
                                FALSE, Absent, "return", NoWindow,
                                apiCache[refKey(referenceId)], FALSE)
            /\ UNCHANGED pending
       ELSE /\ Request("api_ref", referenceId) \notin pending
            /\ Cardinality(pending) < MaxPending
            /\ pending' = pending \cup {Request("api_ref", referenceId)}
            /\ lastCall' = Call("APIDataProvider.getReferenceValues", referenceId,
                                TRUE, Absent, "pending", NoWindow, <<>>, FALSE)
    /\ UNCHANGED apiCache
    /\ lookupUnchanged

APIGetReferenceValuesResponse(referenceId, response) ==
    /\ Request("api_ref", referenceId) \in pending
    /\ pending' = pending \ {Request("api_ref", referenceId)}
    /\ \E result \in {apiReferenceResult(response)} :
          /\ apiCache' = IF result.store
                         THEN MapSet(apiCache, refKey(referenceId), result.values)
                         ELSE apiCache
          /\ lastCall' = Call("APIDataProvider.getReferenceValues", referenceId, TRUE,
                              response.status, result.outcome, NoWindow,
                              result.values, FALSE)
    /\ lookupUnchanged

\* MockDataProvider.getReferenceValues: the table it looks the id up in
mockReferences ==
    [i \in {"CONDITION_LIST", "RISK_LEVELS"} |->
        IF i = "CONDITION_LIST"
        THEN << [key |-> "EXCELLENT", value |-> "Excellent"],
                [key |-> "GOOD", value |-> "Good"],
                [key |-> "FAIR", value |-> "Fair"],
                [key |-> "POOR", value |-> "Poor"],
                [key |-> "CRITICAL", value |-> "Critical"] >>
        ELSE << [key |-> "LOW", value |-> "Low Risk"],
                [key |-> "MEDIUM", value |-> "Medium Risk"],
                [key |-> "HIGH", value |-> "High Risk"],
                [key |-> "CRITICAL", value |-> "Critical Risk"] >>]

\* mockReferences[referenceId] || []
MockGetReferenceValues(referenceId) ==
    /\ lastCall' = Call("MockDataProvider.getReferenceValues", referenceId, FALSE,
                        Absent, "return", NoWindow,
                        IF referenceId \in DOMAIN mockReferences
                        THEN mockReferences[referenceId] ELSE <<>>, FALSE)
    /\ UNCHANGED <<pending, apiCache>>
    /\ lookupUnchanged

---------------------------------------------------------------------------
(* The providers under every order of calls *)

ReferenceIds == {"F1_EMBEDDED_REF", "R1"}

NoCall == [op |-> "none", id |-> Absent, fetch |-> FALSE, status |-> Absent,
           outcome |-> "return", window |-> NoWindow, values |-> <<>>,
           connected |-> FALSE, message |-> Absent]

ProvidersInit ==
    /\ now = 0
    /\ embeddedReferences = EmptyMap
    /\ cache = EmptyMap
    /\ pending = {}
    /\ lastCall = NoCall
    /\ declared = [ext |-> {}, json |-> {}]
    /\ windowData = EmptyMap
    /\ referenceData = EmptyMap
    /\ importDiagnostics = << Diag("initialization", TRUE) >>
    /\ importError = NoImportError
    /\ adaptLog = <<>>
    /\ apiCache = EmptyMap

\* no component is mounted: the providers are called directly
NotMounted ==
    /\ provider = [type |-> Absent, n |-> 0]
    /\ providerType = Absent
    /\ connectionStatus = "offline"
    /\ activeWindowId = Absent
    /\ windowDef = NoWindow
    /\ loading = FALSE
    /\ error = Absent
    /\ pollTimer = 0
    /\ fallbackTimer = "none"
    /\ checks = 0
    /\ discovers = {}
    /\ loads = {}
    /\ testing = FALSE
    /\ backend = "up"
    /\ stub = FALSE
    /\ catalog = {}
    /\ logDepth = 0
    /\ checkLog = <<>>
    /\ errorTicks = 0
    /\ autoSwaps = 0
    /\ evaluated = {}

Init == ProvidersInit /\ NotMounted

\* the External provider alone: its cache, the clock and the server's answers
CacheWindowIds == {"W1"}

Next ==
    \/ \E w \in CacheWindowIds : GetWindowDefinitionCall(w)
    \/ \E w \in CacheWindowIds : \E r \in WindowResponses(w) :
          GetWindowDefinitionResponse(w, r)
    \/ \E i \in ReferenceIds : GetReferenceValuesCall(i)
    \/ \E i \in ReferenceIds : \E r \in ReferenceResponses :
          GetReferenceValuesResponse(i, r)
    \/ IsConnectedCall
    \/ \E r \in HealthResponses : IsConnectedResponse(r)
    \/ AdvanceTime

Spec == Init /\ [][Next]_vars

\* the adapter's static map under the External and the JSON-import provider
AdapterReferenceIds == {"F1_EMBEDDED_REF"}

AdapterImportInputs == { ImportInput(TRUE, TRUE, TRUE, t) : t \in {DocA, DocB} }

NextAdapter ==
    \/ \E w \in WindowIds : GetWindowDefinitionCall(w)
    \/ \E w \in WindowIds : \E r \in WindowResponses(w) :
          GetWindowDefinitionResponse(w, r)
    \/ \E i \in AdapterReferenceIds : GetReferenceValuesCall(i)
    \/ ClearEmbeddedReferences
    \/ \E input \in AdapterImportInputs : ImportJSONTemplate(input)

SpecAdapter == Init /\ [][NextAdapter]_vars

\* one External provider serving two windows, and lookups of their embedded id
ExternalWindowIds == {"W1", "W2"}

NextExternal ==
    \/ \E w \in ExternalWindowIds : GetWindowDefinitionCall(w)
    \/ \E w \in ExternalWindowIds : \E r \in WindowResponses(w) :
          GetWindowDefinitionResponse(w, r)
    \/ \E i \in AdapterReferenceIds : GetReferenceValuesCall(i)
    \/ AdvanceTime

SpecExternal == Init /\ [][NextExternal]_vars

\* the import pipeline alone, over well-formed and malformed inputs
ImportWindowIds == {"W1", "W2", "SITE_AUDIT"}

ImportReferenceIds == {"F1_EMBEDDED_REF", "F5_EMBEDDED_REF", "REF_F1", "R1"}

NextImport ==
    \/ \E input \in ImportInputs : ImportJSONTemplate(input)
    \/ \E w \in ImportWindowIds : JSONGetWindowDefinition(w)
    \/ \E i \in ImportReferenceIds : JSONGetReferenceValues(i)
    \/ ClearImportedData

SpecImport == Init /\ [][NextImport]_vars

\* reference lookups on the four providers, for ids they know and ids they do not
LocalLookupIds == {"R1", "CONDITION_LIST"}

NextLookup ==
    \/ \E i \in ReferenceIds : GetReferenceValuesCall(i)
    \/ \E i \in ReferenceIds : \E r \in ReferenceResponses :
          GetReferenceValuesResponse(i, r)
    \/ APIGetReferenceValuesCall("R1")
    \/ \E r \in ReferenceResponses : APIGetReferenceValuesResponse("R1", r)
    \/ \E i \in LocalLookupIds : MockGetReferenceValues(i)
    \/ \E i \in LocalLookupIds : JSONGetReferenceValues(i)
    \/ ImportJSONTemplate(ImportInput(TRUE, TRUE, TRUE, DocB))

SpecLookup == Init /\ [][NextLookup]_vars

---------------------------------------------------------------------------
(* The React layer: DataContext, useConnectionMonitor, useWindowData, App *)

MockDataProvider == "MockDataProvider"
ExternalMetadataProvider == "ExternalMetadataProvider"
JSONFileDataProvider == "JSONFileDataProvider"

\* a provider object: its class and which instance it is
Provider(type, n) == [type |-> type, n |-> n]

MaxChecks == 2

MaxSwitches == 1

LogDepth == 4

MaxErrorTicks == 2

\* variant: a failed check reports offline whether or not the cache holds data
statusIgnoringCache(type, outcome, cacheSize) ==
    IF type = ExternalMetadataProvider /\ outcome # "true" THEN "offline"
    ELSE "connected"

\* variant: a failed check reports error
statusErrorOnFailure(type, outcome, cacheSize) ==
    IF type = ExternalMetadataProvider /\ outcome # "true" THEN "error"
    ELSE "connected"

\* variant: a rejected check reports offline when the cache is empty
statusOfflineOnReject(type, outcome, cacheSize) ==
    IF type # ExternalMetadataProvider \/ outcome = "true" THEN "connected"
    ELSE IF cacheSize > 0 THEN "cached"
    ELSE "offline"

\* checkConnection: the status it sets, given how provider.isConnected() settled
\* ("true", "false", "reject"; the Mock and JSON branches do not call it)
checkConnectionStatus(type, outcome, cacheSize) ==
    IF type = MockDataProvider THEN "connected"
    ELSE IF type = JSONFileDataProvider THEN "connected"
    ELSE IF type = ExternalMetadataProvider
    THEN IF outcome = "true" THEN "connected"
         ELSE IF outcome = "false"
         THEN (IF cacheSize > 0 THEN "cached" ELSE "offline")
         ELSE (IF cacheSize > 0 THEN "cached" ELSE "error")
    ELSE "error"

Check(type, outcome, cacheEmpty, status) ==
    [type |-> type, outcome |-> outcome, cacheEmpty |-> cacheEmpty, status |-> status]

\* the history of completed checks, the latest logDepth of them
Logged(log, check) ==
    IF logDepth = 0 THEN log
    ELSE IF Len(log) < logDepth THEN Append(log, check)
    ELSE Append(Tail(log), check)

\* the state of the components as one record
View ==
    [provider |-> provider, providerType |-> providerType,
     connectionStatus |-> connectionStatus, activeWindowId |-> activeWindowId,
     windowDef |-> windowDef, loading |-> loading, error |-> error,
     pollTimer |-> pollTimer, fallbackTimer |-> fallbackTimer, checks |-> checks,
     discovers |-> discovers, loads |-> loads, testing |-> testing,
     checkLog |-> checkLog, autoSwaps |-> autoSwaps]

\* checkConnection up to its await: the External branch awaits isConnected(),
\* every other branch sets the status at once
checkConnection(s, type) ==
    IF type = ExternalMetadataProvider
    THEN [s EXCEPT !.checks = @ + 1]
    ELSE LET status == checkConnectionStatus(type, "none", 0)
         IN  [s EXCEPT !.connectionStatus = status,
                       !.checkLog = Logged(@, Check(type, "none", TRUE, status))]

\* whether the monitor's effect sets an interval for this provider type
polled(type) == type \notin {MockDataProvider, JSONFileDataProvider}

\* variant: the effect returns no cleanup, the earlier interval stays set
monitorEffectWithoutCleanup(s, cur) ==
    [checkConnection(s, cur.providerType) EXCEPT
        !.pollTimer = @ + (IF polled(cur.providerType) THEN 1 ELSE 0)]

\* the monitor's effect: the cleanup of its previous run clears the interval that
\* run had set; then check now, and poll unless the provider is Mock or JSON
monitorEffect(s, cur) ==
    [checkConnection(s, cur.providerType) EXCEPT
        !.pollTimer = (IF @ > 0 THEN @ - 1 ELSE 0)
                         + (IF polled(cur.providerType) THEN 1 ELSE 0)]

\* App's discoverWindows up to its await
discoverWindows(s, cur) ==
    IF cur.connectionStatus = "connected"
    THEN [s EXCEPT !.discovers = @ \cup {cur.provider}]
    ELSE IF cur.connectionStatus \in {"offline", "error"}
    THEN [s EXCEPT !.activeWindowId = Absent]
    ELSE s

\* a getWindowDefinition call in flight: async is FALSE when it settles without
\* I/O (the JSON provider, a cache hit of the External provider)
Load(p, windowId) ==
    LET hit == cacheHit(cache, windowKey(windowId), now)
    IN  [provider |-> p, windowId |-> windowId,
         async |-> \/ p.type = MockDataProvider
                   \/ p.type = ExternalMetadataProvider /\ ~hit,
         cached |-> IF p.type = ExternalMetadataProvider /\ hit
                    THEN cache[windowKey(windowId)].window ELSE NoWindow]

\* useWindowData's loadWindow up to its await
loadWindow(s, cur) ==
    IF cur.activeWindowId = Absent
    THEN [s EXCEPT !.loading = FALSE, !.windowDef = NoWindow]
    ELSE [s EXCEPT !.loading = TRUE, !.error = Absent,
                   !.loads = @ \cup {Load(cur.provider, cur.activeWindowId)}]

\* the condition of App's auto-fallback effect
fallbackCondition(cur) ==
    /\ cur.error # Absent
    /\ cur.providerType = ExternalMetadataProvider
    /\ cur.connectionStatus = "error"

\* variant: the effect returns no cleanup, a timer set earlier stays set
fallbackEffectWithoutCleanup(s, cur) ==
    [s EXCEPT !.fallbackTimer = IF ~fallbackCondition(cur) THEN @
                                ELSE IF @ = "none" THEN "pending"
                                ELSE "several"]

\* the auto-fallback effect: the cleanup clears the timer, the body may set one
fallbackEffect(s, cur) ==
    [s EXCEPT !.fallbackTimer = IF fallbackCondition(cur) THEN "pending" ELSE "none"]

\* DataContext's testConnection up to its await (Mock is skipped; the JSON
\* provider answers without I/O)
testConnection(s, cur) ==
    IF cur.provider.type = ExternalMetadataProvider THEN [s EXCEPT !.testing = TRUE]
    ELSE s

\* one commit: the effects whose dependencies changed from prev to cur run with
\* cur's values; context says the DataContextProvider rendered again, which
\* hands the effects a new switchProvider function
runEffects(prev, cur, mount, context) ==
    LET newProvider == mount \/ prev.provider # cur.provider
        newType == mount \/ prev.providerType # cur.providerType
        newStatus == mount \/ prev.connectionStatus # cur.connectionStatus
        s1 == IF newProvider \/ newType THEN monitorEffect(cur, cur) ELSE cur
        s2 == IF mount \/ prev.activeWindowId # cur.activeWindowId \/ newProvider
              THEN loadWindow(s1, cur) ELSE s1
        s3 == IF newStatus \/ newProvider THEN discoverWindows(s2, cur) ELSE s2
        s4 == IF \/ mount \/ context \/ newProvider \/ newType \/ newStatus
                 \/ prev.error # cur.error
              THEN fallbackEffect(s3, cur) ELSE s3
    IN  IF newProvider THEN testConnection(s4, cur) ELSE s4

\* React renders and runs effects until no effect sets state any more
RECURSIVE commit(_, _, _, _)
commit(prev, cur, mount, context) ==
    LET s == runEffects(prev, cur, mount, context)
    IN  IF s = cur THEN s ELSE commit(cur, s, FALSE, FALSE)

\* DataContext.switchProvider
switchProvider(s, newProvider) ==
    [s EXCEPT !.provider = newProvider, !.providerType = newProvider.type]

\* calls that settle in a microtask, before any other event is handled
Urgent ==
    \/ \E p \in discovers : p.type = JSONFileDataProvider
    \/ \E l \in loads : ~l.async

\* the components take the state s; ticked says a grace period has just passed
Rendered(s, ticked) ==
    /\ provider' = s.provider
    /\ providerType' = s.providerType
    /\ connectionStatus' = s.connectionStatus
    /\ activeWindowId' = s.activeWindowId
    /\ windowDef' = s.windowDef
    /\ loading' = s.loading
    /\ error' = s.error
    /\ pollTimer' = s.pollTimer
    /\ fallbackTimer' = s.fallbackTimer
    /\ checks' = s.checks
    /\ discovers' = s.discovers
    /\ loads' = s.loads
    /\ testing' = s.testing
    /\ checkLog' = s.checkLog
    /\ autoSwaps' = s.autoSwaps
    /\ errorTicks' = IF s.connectionStatus # "error" THEN 0
                     ELSE IF ticked /\ errorTicks < MaxErrorTicks THEN errorTicks + 1
                     ELSE errorTicks
    /\ UNCHANGED <<stub, catalog, logDepth, evaluated>>

providersUnchanged ==
    UNCHANGED <<now, embeddedReferences, cache, pending, lastCall, declared,
                windowData, referenceData, importDiagnostics, importError, adaptLog,
                apiCache>>

\* what the server answers now: nothing but transport failures while it is down
Answers(ok) == IF backend = "down" THEN {Failure(NetworkError)}
               ELSE {Failure(HttpError)} \cup ok

NoAnswer == Response(Absent, NoDoc, <<>>)

\* GET /windows: { windows: [...] }, of which the App reads the first id
ServedLists == { <<>>, <<[id |-> "W1"]>> }

\* a server whose first window has the id of one of the demo windows
DemoLists == { <<[id |-> "SAFETY_AUDIT"]>> }

\* MockDataProvider.initializeMockData: the catalog, as far as the App reads it
MockWindows ==
    << [id |-> "EQUIP_INSPECTION", name |-> "Equipment Inspection",
        tabs |-> << [id |-> "TAB_GENERAL",
                     fields |-> << [id |-> "ASSET_ID", displayLogic |-> Absent,
                                    reference |-> NoAdaptedReference] >>] >>],
       [id |-> "SAFETY_AUDIT", name |-> "Safety Audit",
        tabs |-> << [id |-> "TAB_AUDIT",
                     fields |-> << [id |-> "HAZARD_LEVEL", displayLogic |-> Absent,
                                    reference |-> [present |-> TRUE,
                                                   id |-> "RISK_LEVELS",
                                                   values |-> <<>>]],
                                   [id |-> "IMMEDIATE_ACTION",
                                    displayLogic |->
                                       "@HAZARD_LEVEL@='HIGH' || @HAZARD_LEVEL@='CRITICAL'",
                                    reference |-> NoAdaptedReference] >>] >>] >>

\* how provider.isConnected() may settle: the shipped provider answers by
\* GET /health, a stand-in may answer anything and may reject
HealthOutcomes ==
    IF stub THEN {"true", "false", "reject"}
    ELSE { IF isConnectedResult(r, cache) THEN "true" ELSE "false" :
           r \in Answers({Response(Ok, NoDoc, <<>>)}) }

\* the health check of the monitor settles
HealthCheckDone(outcome) ==
    /\ ~Urgent
    /\ checks > 0
    /\ LET size == Cardinality(DOMAIN cache)
           status == checkConnectionStatus(ExternalMetadataProvider, outcome, size)
           s == [View EXCEPT
                    !.checks = @ - 1,
                    !.connectionStatus = status,
                    !.checkLog = Logged(@, Check(ExternalMetadataProvider, outcome,
                                                 size = 0, status))]
       IN  Rendered(commit(View, s, FALSE, FALSE), FALSE)
    /\ providersUnchanged
    /\ UNCHANGED backend

\* a timer runs out: the monitor's interval (any time) or the fallback timeout
TimerFire(timer) ==
    /\ ~Urgent
    /\ IF timer = "fallback"
       THEN /\ fallbackTimer = "due"
            /\ LET s == [switchProvider(View, Provider(MockDataProvider, provider.n + 1))
                            EXCEPT !.fallbackTimer = "none", !.autoSwaps = @ + 1]
               IN  Rendered(commit(View, s, FALSE, TRUE), FALSE)
       ELSE /\ pollTimer > 0
            /\ providerType = ExternalMetadataProvider => checks < MaxChecks
            /\ Rendered(commit(View, checkConnection(View, providerType), FALSE, FALSE),
                        FALSE)
    /\ providersUnchanged
    /\ UNCHANGED backend

\* the grace period of the fallback timeout passes
Tick ==
    /\ ~Urgent
    /\ fallbackTimer # "due"
    /\ Rendered([View EXCEPT !.fallbackTimer = IF @ = "pending" THEN "due" ELSE @],
                TRUE)
    /\ providersUnchanged
    /\ UNCHANGED backend

\* getAvailableWindows of provider p settles and discoverWindows resumes
DiscoverResponses(p) ==
    IF p.type = ExternalMetadataProvider
    THEN Answers({ Response(Ok, NoDoc, l) : l \in catalog })
    ELSE {NoAnswer}

firstWindow(p, response) ==
    LET windows == IF p.type = MockDataProvider THEN MockWindows
                   ELSE IF p.type = JSONFileDataProvider
                   THEN IF DOMAIN windowData = {} THEN <<>>
                        ELSE << windowData[CHOOSE k \in DOMAIN windowData : TRUE] >>
                   ELSE IF response.status = Ok THEN response.values
                   ELSE <<>>
    IN  IF Len(windows) > 0 THEN windows[1].id ELSE Absent

DiscoverDone(p, response) ==
    /\ p \in discovers
    /\ Urgent => p.type = JSONFileDataProvider
    /\ LET s == [View EXCEPT !.discovers = @ \ {p},
                             !.activeWindowId = firstWindow(p, response)]
       IN  Rendered(commit(View, s, FALSE, FALSE), FALSE)
    /\ providersUnchanged
    /\ UNCHANGED backend

\* getWindowDefinition of a load settles and loadWindow resumes
LoadResponses(l) ==
    IF l.provider.type = ExternalMetadataProvider /\ l.async
    THEN Answers({ Response(Ok, d, <<>>) :
                      d \in {x \in ServedDocs : x.windowId = l.windowId} })
    ELSE {NoAnswer}

\* what the call gives: the window or the message thrown, and the adapter's map
loaded(l, response) ==
    LET id == l.windowId
        keep == embeddedReferences
    IN  IF l.provider.type = MockDataProvider
        THEN IF \E i \in 1..Len(MockWindows) : MockWindows[i].id = id
             THEN [message |-> Absent, emb |-> keep, stored |-> FALSE,
                   window |-> MockWindows[CHOOSE i \in 1..Len(MockWindows) :
                                             MockWindows[i].id = id]]
             ELSE [message |-> "Window " \o id \o " not found", emb |-> keep,
                   stored |-> FALSE, window |-> NoWindow]
        ELSE IF l.provider.type = JSONFileDataProvider
        THEN IF id \in DOMAIN windowData
             THEN [message |-> Absent, emb |-> keep, stored |-> FALSE,
                   window |-> windowData[id]]
             ELSE [message |-> "Window definition not found: " \o id, emb |-> keep,
                   stored |-> FALSE, window |-> NoWindow]
        ELSE IF ~l.async
        THEN [message |-> Absent, emb |-> keep, stored |-> FALSE, window |-> l.cached]
        ELSE IF response.status # Ok
        THEN [message |-> "Failed to load window " \o id \o ": " \o response.status,
              emb |-> keep, stored |-> FALSE, window |-> NoWindow]
        ELSE LET r == adaptWindowDefinition(response.doc, embeddedReferences)
             IN  IF r.threw
                 THEN [message |-> "Failed to load window " \o id \o ": TypeError",
                       emb |-> r.emb, stored |-> FALSE, window |-> NoWindow]
                 ELSE [message |-> Absent, emb |-> r.emb, stored |-> TRUE,
                       window |-> r.window]

LoadDone(l, response) ==
    /\ l \in loads
    /\ Urgent => ~l.async
    /\ \E r \in {loaded(l, response)} :
          /\ embeddedReferences' = r.emb
          /\ cache' = IF r.stored
                      THEN MapSet(cache, windowKey(l.windowId),
                                  Entry(r.window, <<>>, now))
                      ELSE cache
          /\ LET s == IF r.message # Absent
                      THEN [View EXCEPT !.loads = @ \ {l}, !.error = r.message,
                                        !.windowDef = NoWindow, !.loading = FALSE]
                      ELSE [View EXCEPT !.loads = @ \ {l}, !.windowDef = r.window,
                                        !.loading = FALSE]
             IN  Rendered(commit(View, s, FALSE, FALSE), FALSE)
    /\ UNCHANGED <<now, pending, lastCall, declared, windowData, referenceData,
                   importDiagnostics, importError, adaptLog, apiCache, backend>>

\* DataContext's testConnection settles: the context renders again
TestConnectionDone ==
    /\ ~Urgent
    /\ testing
    /\ Rendered(commit(View, [View EXCEPT !.testing = FALSE], FALSE, TRUE), FALSE)
    /\ providersUnchanged
    /\ UNCHANGED backend

\* the user presses Retry (connection.recheckConnection), on the status bar or
\* the error screen
Retry ==
    /\ ~Urgent
    /\ ~loading
    /\ providerType = ExternalMetadataProvider => checks < MaxChecks
    /\ Rendered(commit(View, checkConnection(View, providerType), FALSE, FALSE), FALSE)
    /\ providersUnchanged
    /\ UNCHANGED backend

\* the user confirms "Use Demo" on the error screen
handleSwitchToDemo ==
    /\ ~Urgent
    /\ ~loading
    /\ error # Absent \/ (connectionStatus = "offline" /\ windowDef = NoWindow)
    /\ provider.n < MaxSwitches
    /\ LET s == switchProvider(View, Provider(MockDataProvider, provider.n + 1))
       IN  Rendered(commit(View, s, FALSE, TRUE), FALSE)
    /\ providersUnchanged
    /\ UNCHANGED backend

\* a JSON template arrives (picked, or opened from a link): a new
\* JSONFileDataProvider imports it and, when that succeeds, becomes the provider
handleJSONFileImport(input) ==
    /\ ~Urgent
    /\ provider.n < MaxSwitches
    /\ LET run == importStages(input)
           adapted == adaptWindowDefinition(input.template, embeddedReferences)
           done == run.reached = "import_complete"
           s == switchProvider(View, Provider(JSONFileDataProvider, provider.n + 1))
       IN  /\ embeddedReferences' =
                 IF reachedAdaptation(input) THEN adapted.emb ELSE embeddedReferences
           /\ importError' = importErrorOf(run, input.template)
           /\ IF done
              THEN /\ windowData' = MapSet(EmptyMap, adapted.window.id, adapted.window)
                   /\ referenceData' =
                         extractReferenceData(input.template.tabs, EmptyMap)
                   /\ importDiagnostics' = run.log
                   /\ Rendered(commit(View, s, FALSE, TRUE), FALSE)
              ELSE /\ UNCHANGED <<windowData, referenceData, importDiagnostics>>
                   /\ Rendered(View, FALSE)
    /\ UNCHANGED <<now, cache, pending, lastCall, declared, adaptLog, apiCache,
                   backend>>

\* windowDef.tabs.flatMap(tab => tab.fields)
RECURSIVE allFields(_)
allFields(tabs) ==
    IF tabs = <<>> THEN <<>> ELSE Head(tabs).fields \o allFields(Tail(tabs))

\* ValidationEngine.validateAllFields: the expressions evaluateDisplayLogic hands
\* to eval, one for every field whose displayLogic is not empty
evaluatedBy(fieldDefs) ==
    { fieldDefs[i].displayLogic :
         i \in { j \in 1..Len(fieldDefs) : fieldDefs[j].displayLogic # Absent } }

\* the user presses Save: handleSave calls handleSubmit(windowDef, ...), which
\* validates all fields of the window shown
handleSubmit ==
    /\ ~Urgent
    /\ windowDef # NoWindow
    /\ evaluated' = evaluated \cup evaluatedBy(allFields(windowDef.tabs))
    /\ UNCHANGED <<provVars, provider, providerType, connectionStatus, activeWindowId,
                   windowDef, loading, error, pollTimer, fallbackTimer, checks,
                   discovers, loads, testing, backend, stub, catalog, logDepth,
                   checkLog, errorTicks, autoSwaps>>

\* the metadata server becomes unreachable, or reachable again
BackendChange ==
    /\ backend' = IF backend = "up" THEN "down" ELSE "up"
    /\ UNCHANGED <<provVars, provider, providerType, connectionStatus, activeWindowId,
                   windowDef, loading, error, pollTimer, fallbackTimer, checks,
                   discovers, loads, testing, stub, catalog, logDepth, checkLog,
                   errorTicks, autoSwaps, evaluated>>

\* what DataContextProvider starts from: getDataConfig and createDataProvider give
\* Mock, External or an empty JSON provider ('api' throws and falls back to Mock)
InitialProviders ==
    { Provider(t, 0) :
        t \in {MockDataProvider, ExternalMetadataProvider, JSONFileDataProvider} }

\* the first render: useState's initial values
Unmounted(p) ==
    [provider |-> p, providerType |-> p.type, connectionStatus |-> "offline",
     activeWindowId |-> Absent, windowDef |-> NoWindow, loading |-> TRUE,
     error |-> Absent, pollTimer |-> 0, fallbackTimer |-> "none", checks |-> 0,
     discovers |-> {}, loads |-> {}, testing |-> FALSE, checkLog |-> <<>>,
     autoSwaps |-> 0]

\* the App mounted: the state after the first effects have run
Mounted ==
    /\ ProvidersInit
    /\ errorTicks = 0
    /\ evaluated = {}
    /\ \E p \in InitialProviders :
          LET s == commit(Unmounted(p), Unmounted(p), TRUE, FALSE)
          IN  /\ provider = s.provider
              /\ providerType = s.providerType
              /\ connectionStatus = s.connectionStatus
              /\ activeWindowId = s.activeWindowId
              /\ windowDef = s.windowDef
              /\ loading = s.loading
              /\ error = s.error
              /\ pollTimer = s.pollTimer
              /\ fallbackTimer = s.fallbackTimer
              /\ checks = s.checks
              /\ discovers = s.discovers
              /\ loads = s.loads
              /\ testing = s.testing
              /\ checkLog = s.checkLog
              /\ autoSwaps = s.autoSwaps

AppImportInputs ==
    { ImportInput(TRUE, TRUE, TRUE, DocA), ImportInput(TRUE, TRUE, FALSE, DocA) }

NextApp ==
    \/ \E outcome \in HealthOutcomes : HealthCheckDone(outcome)
    \/ \E timer \in {"poll", "fallback"} : TimerFire(timer)
    \/ Tick
    \/ \E p \in discovers : \E r \in DiscoverResponses(p) : DiscoverDone(p, r)
    \/ \E l \in loads : \E r \in LoadResponses(l) : LoadDone(l, r)
    \/ TestConnectionDone
    \/ Retry
    \/ handleSwitchToDemo
    \/ \E input \in AppImportInputs : handleJSONFileImport(input)
    \/ BackendChange

InitApp ==
    /\ stub = FALSE
    /\ catalog = ServedLists
    /\ logDepth = 0
    /\ backend \in {"up", "down"}
    /\ Mounted

\* the App over the shipped providers
SpecApp == InitApp /\ [][NextApp]_vars

\* as SpecApp, with the event loop running every timer and settling every call
FairSpecApp ==
    /\ SpecApp
    /\ WF_vars(\E outcome \in HealthOutcomes : HealthCheckDone(outcome))
    /\ WF_vars(\E timer \in {"poll", "fallback"} : TimerFire(timer))
    /\ WF_vars(Tick)
    /\ WF_vars(\E p \in discovers : \E r \in DiscoverResponses(p) : DiscoverDone(p, r))
    /\ WF_vars(\E l \in loads : \E r \in LoadResponses(l) : LoadDone(l, r))
    /\ WF_vars(TestConnectionDone)

\* the monitor and the fallback with nobody switching provider, over an External
\* provider that is only known to implement the DataProvider contract
NextMonitor ==
    \/ \E outcome \in HealthOutcomes : HealthCheckDone(outcome)
    \/ \E timer \in {"poll", "fallback"} : TimerFire(timer)
    \/ Tick
    \/ \E p \in discovers : \E r \in DiscoverResponses(p) : DiscoverDone(p, r)
    \/ \E l \in loads : \E r \in LoadResponses(l) : LoadDone(l, r)
    \/ TestConnectionDone
    \/ Retry

InitMonitor ==
    /\ stub = TRUE
    /\ catalog = ServedLists
    /\ logDepth = LogDepth
    /\ backend = "up"
    /\ Mounted

SpecMonitor == InitMonitor /\ [][NextMonitor]_vars

FallbackLogDepth == 2

\* the App with manual switches and imports, over an External provider that is
\* only known to implement the DataProvider contract
InitFallback ==
    /\ stub = TRUE
    /\ catalog = ServedLists
    /\ logDepth = FallbackLogDepth
    /\ backend = "up"
    /\ Mounted

SpecFallback == InitFallback /\ [][NextApp]_vars

\* the App with a user who submits the form shown, over a server whose catalog
\* starts with a window id that the demo data has too
InitSubmit ==
    /\ stub = FALSE
    /\ catalog = DemoLists
    /\ logDepth = 0
    /\ backend \in {"up", "down"}
    /\ Mounted

NextSubmit == NextApp \/ handleSubmit

SpecSubmit == InitSubmit /\ [][NextSubmit]_vars

---------------------------------------------------------------------------
(* Properties of the connection monitor (SpecMonitor) *)

LastCheck == checkLog[Len(checkLog)]

\* C2: the status is always one of connected, cached, offline, error and is
\* offline until a first check completes; every completed check of the External
\* provider sets it: isConnected() true -> connected, false with a non-empty
\* cache -> cached, false with an empty cache -> offline.
C2_StatusFollowsHealthCheck ==
    /\ connectionStatus \in {"connected", "cached", "offline", "error"}
    /\ checkLog = <<>> => connectionStatus = "offline"
    /\ checkLog # <<>> => connectionStatus = LastCheck.status
    /\ \A i \in 1..Len(checkLog) :
          checkLog[i].type = "ExternalMetadataProvider"
             => /\ checkLog[i].outcome = "true" => checkLog[i].status = "connected"
                /\ checkLog[i].outcome = "false" /\ ~checkLog[i].cacheEmpty
                      => checkLog[i].status = "cached"
                /\ checkLog[i].outcome = "false" /\ checkLog[i].cacheEmpty
                      => checkLog[i].status = "offline"

\* a check succeeded, and a later one failed while the cache held a window
C2_FailedWithCacheAfterSuccess ==
    /\ Len(checkLog) >= 2
    /\ \E i \in 1..(Len(checkLog) - 1) : checkLog[i].outcome = "true"
    /\ LastCheck.outcome = "false"
    /\ ~LastCheck.cacheEmpty
    /\ connectionStatus = "cached"

\* four checks in a row of which the first three returned false and the fourth true
FailedThriceThenSucceeded(i) ==
    /\ i + 3 <= Len(checkLog)
    /\ \A k \in i..(i + 2) : checkLog[k].outcome = "false"
    /\ checkLog[i + 3].outcome = "true"

\* C6 as stated: three failed checks followed by a successful one give the
\* statuses error, error, error, connected; a failed check with a non-empty cache
\* gives cached.
C6_FailuresGiveError ==
    /\ \A i \in 1..Len(checkLog) :
          FailedThriceThenSucceeded(i)
             => /\ \A k \in i..(i + 2) : checkLog[k].status = "error"
                /\ checkLog[i + 3].status = "connected"
    /\ \A i \in 1..Len(checkLog) :
          checkLog[i].outcome = "false" /\ ~checkLog[i].cacheEmpty
             => checkLog[i].status = "cached"

\* C6 amended: three failed checks followed by a successful one give, for each
\* failed check, offline when the cache was empty and cached when it was not
\* (never error), and then connected.
C6_FailuresGiveOfflineOrCached ==
    \A i \in 1..Len(checkLog) :
       FailedThriceThenSucceeded(i)
          => /\ \A k \in i..(i + 2) :
                   checkLog[k].status =
                      IF checkLog[k].cacheEmpty THEN "offline" ELSE "cached"
             /\ checkLog[i + 3].status = "connected"
             /\ i + 3 = Len(checkLog) => connectionStatus = "connected"

\* three failed checks, the cache filling in between, then a successful one
C6_ThreeFailuresThenSuccess ==
    /\ FailedThriceThenSucceeded(1)
    /\ Len(checkLog) = 4
    /\ checkLog[1].status = "offline"
    /\ checkLog[3].status = "cached"
    /\ connectionStatus = "connected"

---------------------------------------------------------------------------
(* Properties of the App over the shipped providers (FairSpecApp) *)

\* C5 as stated: when from some point on the backend of the active External
\* provider fails every fetch, the active provider eventually becomes Mock by an
\* automatic swap.
C5_SustainedFailureReachesMock ==
    <>[](backend = "down" /\ providerType = "ExternalMetadataProvider")
       => <>(autoSwaps > 0 /\ providerType = "MockDataProvider")

---------------------------------------------------------------------------
(* Properties of the External provider's cache and health check (Spec) *)

\* an entry under key exists and is younger than the TTL
WithinTtl(key) == key \in DOMAIN cache /\ now - cache[key].timestamp < CacheTimeout

WindowServedFromCache(w) ==
    /\ pending' = pending
    /\ cache' = cache
    /\ ~lastCall'.fetch
    /\ lastCall'.outcome = "return"
    /\ lastCall'.window = cache[windowKey(w)].window

ValuesServedFromCache(i) ==
    /\ pending' = pending
    /\ cache' = cache
    /\ ~lastCall'.fetch
    /\ lastCall'.outcome = "return"
    /\ lastCall'.values = cache[refKey(i)].values

Fetched(op, id) == Request(op, id) \in pending' /\ lastCall'.fetch

\* a successful fetch stores what it returns under the current time
StoredAtNow ==
    /\ \A w \in CacheWindowIds : \A r \in WindowResponses(w) :
          GetWindowDefinitionResponse(w, r) /\ lastCall'.outcome = "return"
             => cache'[windowKey(w)] = Entry(lastCall'.window, <<>>, now)
    /\ \A i \in ReferenceIds : \A r \in ReferenceResponses :
          GetReferenceValuesResponse(i, r) /\ r.status = Ok
             => cache'[refKey(i)] = Entry(NoWindow, lastCall'.values, now)

WindowCallsFollowTtl ==
    \A w \in CacheWindowIds :
       GetWindowDefinitionCall(w)
          => IF WithinTtl(windowKey(w)) THEN WindowServedFromCache(w)
             ELSE Fetched("window", w)

\* C1 as stated: getWindowDefinition and getReferenceValues both return the cached
\* value without a fetch while now - timestamp < TTL, and otherwise fetch and store
\* the new value under the current time.
C1_EveryCallFollowsTtl ==
    [][ /\ WindowCallsFollowTtl
        /\ \A i \in ReferenceIds :
              GetReferenceValuesCall(i)
                 => IF WithinTtl(refKey(i)) THEN ValuesServedFromCache(i)
                    ELSE Fetched("ref", i)
        /\ StoredAtNow ]_vars

\* C1 amended: as above, except that an id ending in _EMBEDDED_REF is never
\* fetched: with no entry within the TTL its values are read from the adapter's
\* static map and stored under the current time, and when the map has none the
\* call returns [] and leaves the cache alone.
C1_CallsFollowTtlExceptEmbedded ==
    [][ /\ WindowCallsFollowTtl
        /\ \A i \in ReferenceIds :
              GetReferenceValuesCall(i)
                 => IF WithinTtl(refKey(i)) THEN ValuesServedFromCache(i)
                    ELSE IF EndsWith(i, "_EMBEDDED_REF")
                    THEN /\ pending' = pending
                         /\ ~lastCall'.fetch
                         /\ IF i \in DOMAIN embeddedReferences
                            THEN /\ lastCall'.values = embeddedReferences[i]
                                 /\ cache'[refKey(i)] =
                                       Entry(NoWindow, embeddedReferences[i], now)
                            ELSE /\ lastCall'.values = <<>>
                                 /\ cache' = cache
                    ELSE Fetched("ref", i)
        /\ StoredAtNow ]_vars

\* W1 is served from an entry half a TTL old, after the embedded id was read from
\* the static map and stored under the current time
C1_ServedWithinTtl ==
    /\ lastCall.op = "getWindowDefinition"
    /\ lastCall.id = "W1"
    /\ ~lastCall.fetch
    /\ lastCall.outcome = "return"
    /\ now = CacheTimeout
    /\ cache[windowKey("W1")].timestamp = ClockStep
    /\ refKey("F1_EMBEDDED_REF") \in DOMAIN cache
    /\ cache[refKey("F1_EMBEDDED_REF")].timestamp = now

\* C8: a settled isConnected returns true exactly when GET /health answered 2xx,
\* returns false (never throws) for a non-2xx answer or a transport failure, and
\* this holds whatever the cache contains.
C8_ConnectedIffHealthOk ==
    lastCall.op = "isConnected" /\ lastCall.outcome # "pending"
       => /\ lastCall.outcome = "return"
          /\ lastCall.connected = (lastCall.status = "ok")

\* the health check failed in transport while the cache held an entry
C8_FailedWithCache ==
    /\ lastCall.op = "isConnected"
    /\ lastCall.status = "network_error"
    /\ lastCall.outcome = "return"
    /\ ~lastCall.connected
    /\ DOMAIN cache # {}

---------------------------------------------------------------------------
(* Properties of the adapter's static map (SpecAdapter) *)

\* the converted inline values of the field of doc that declares the embedded id
InlineValuesOf(doc, id) ==
    LET at == CHOOSE p \in (1..Len(doc.tabs)) \X (1..4) :
                  /\ p[2] <= Len(doc.tabs[p[1]].fields)
                  /\ doc.tabs[p[1]].fields[p[2]].reference.id = Absent
                  /\ doc.tabs[p[1]].fields[p[2]].reference.hasValues
                  /\ doc.tabs[p[1]].fields[p[2]].fieldId \o "_EMBEDDED_REF" = id
        vals == doc.tabs[at[1]].fields[at[2]].reference.values
    IN  [k \in 1..Len(vals) |->
            [key |-> vals[k].key,
             value |-> IF vals[k].display # "" THEN vals[k].display
                       ELSE vals[k].value]]

\* the static map holds the embedded references of doc and nothing else
HoldsExactly(emb, doc) ==
    /\ DOMAIN emb = DeclaredIds(doc)
    /\ \A id \in DeclaredIds(doc) : emb[id] = InlineValuesOf(doc, id)

\* C10: adapting a document D first clears the static map, so that afterwards it
\* holds exactly D's embedded references and none of an earlier document;
\* clearEmbeddedReferences makes every later lookup fail until the next adaptation.
C10_ResolverHoldsLastDocument ==
    [][ /\ \A w \in WindowIds : \A r \in WindowResponses(w) :
              GetWindowDefinitionResponse(w, r) /\ r.status = Ok
                 => HoldsExactly(embeddedReferences', r.doc)
        /\ \A input \in AdapterImportInputs :
              ImportJSONTemplate(input)
                 => HoldsExactly(embeddedReferences', input.template)
        /\ ClearEmbeddedReferences
              => \A id \in DOMAIN embeddedReferences :
                    ~getEmbeddedReferenceValues(embeddedReferences', id).found
      ]_vars

\* W2's version without embedded fields was adapted after W1, and W1's entry is gone
C10_EarlierDocumentDropped ==
    /\ lastCall.op = "getWindowDefinition"
    /\ lastCall.outcome = "return"
    /\ lastCall.id = "W2"
    /\ "F1_EMBEDDED_REF" \in declared.ext
    /\ windowKey("W1") \in DOMAIN cache
    /\ DOMAIN embeddedReferences = {}

\* C9 as stated: an External lookup of an embedded id makes no network call and
\* returns a non-empty list only if this provider has adapted a document that
\* declares the id.
C9_EmbeddedLookupOwnDocumentsOnly ==
    lastCall.op = "getReferenceValues" /\ EndsWith(lastCall.id, "_EMBEDDED_REF")
       => /\ ~lastCall.fetch
          /\ lastCall.values # <<>> => lastCall.id \in declared.ext

---------------------------------------------------------------------------
(* Properties of the adapter's conversion (SpecAdapter) *)

\* the positions <<tab, field>> of the fields of a document
FieldPositions(doc) ==
    UNION { { <<i, j>> : j \in 1..Len(doc.tabs[i].fields) } : i \in 1..Len(doc.tabs) }

\* C11 as stated: a field with inline values and no reference id gets the id
\* <fieldId>_EMBEDDED_REF, and among the reference ids of an adapted window
\* isEmbeddedReference is true for exactly these generated ids and false for every
\* id the source supplied.
C11_SuffixMarksGeneratedIds ==
    [][ \A w \in WindowIds : \A r \in WindowResponses(w) :
           GetWindowDefinitionResponse(w, r) /\ lastCall'.outcome = "return"
              => \A p \in FieldPositions(r.doc) :
                    LET external == r.doc.tabs[p[1]].fields[p[2]]
                        adapted == lastCall'.window.tabs[p[1]].fields[p[2]]
                    IN  external.reference.present /\ external.reference.hasValues
                           => /\ external.reference.id = Absent
                                    => adapted.reference.id =
                                          external.fieldId \o "_EMBEDDED_REF"
                              /\ isEmbeddedReference(adapted.reference.id)
                                    <=> external.reference.id = Absent
      ]_vars

\* C13: when the fetch of a second window was in flight while a first window was
\* adapted, then once the second has been adapted too, every embedded id that only
\* the first document declares is not found in the static map.
C13_SecondAdaptationDropsFirst ==
    /\ Len(adaptLog) = 2
    /\ adaptLog[2].doc.windowId \in adaptLog[1].inFlight
    /\ lastCall.op = "getWindowDefinition"
    /\ lastCall.fetch
    /\ lastCall.outcome = "return"
    /\ lastCall.id = adaptLog[2].doc.windowId
    => \A id \in DeclaredIds(adaptLog[1].doc) \ DeclaredIds(adaptLog[2].doc) :
          ~getEmbeddedReferenceValues(embeddedReferences, id).found

\* W1 and W2 were fetched at the same time; W1 was adapted first, then the version
\* of W2 without embedded fields, and W1's embedded id is no longer found
C13_OverlappingFetchesLoseFirst ==
    /\ Len(adaptLog) = 2
    /\ adaptLog[1].doc = DocA
    /\ "W2" \in adaptLog[1].inFlight
    /\ adaptLog[2].doc = DocC
    /\ lastCall.op = "getWindowDefinition"
    /\ lastCall.id = "W2"
    /\ lastCall.outcome = "return"
    /\ pending = {}
    /\ windowKey("W1") \in DOMAIN cache
    /\ cache[windowKey("W1")].window.tabs[1].fields[1].reference.id = "F1_EMBEDDED_REF"
    /\ ~getEmbeddedReferenceValues(embeddedReferences, "F1_EMBEDDED_REF").found

\* the adapted window has the tabs of the document and each tab its fields, one for
\* one and in the same order
SameShape(doc, window) ==
    /\ Len(window.tabs) = Len(doc.tabs)
    /\ \A i \in 1..Len(doc.tabs) :
          /\ window.tabs[i].id = doc.tabs[i].tabId
          /\ Len(window.tabs[i].fields) = Len(doc.tabs[i].fields)
          /\ \A j \in 1..Len(doc.tabs[i].fields) :
                window.tabs[i].fields[j].id =
                   OrElse(doc.tabs[i].fields[j].fieldId, doc.tabs[i].fields[j].id)

\* C19: the window adapted from a document D has exactly D's tabs in D's order,
\* and each adapted tab exactly the fields of D's tab in the same order, whether D
\* came from the server or from an import.
C19_TabsAndFieldsKeepOrder ==
    [][ /\ \A w \in WindowIds : \A r \in WindowResponses(w) :
              GetWindowDefinitionResponse(w, r) /\ lastCall'.outcome = "return"
                 => SameShape(r.doc, lastCall'.window)
        /\ \A input \in AdapterImportInputs :
              ImportJSONTemplate(input) /\ lastCall'.outcome = "return"
                 => SameShape(input.template, lastCall'.window)
      ]_vars

\* the two-tab W2 was adapted after the two-field W1, each in its order
C19_TwoTabsTwoFieldsAdapted ==
    /\ lastCall.op = "getWindowDefinition"
    /\ lastCall.id = "W2"
    /\ lastCall.outcome = "return"
    /\ Len(lastCall.window.tabs) = 2
    /\ lastCall.window.tabs[1].fields[1].id = "F1"
    /\ lastCall.window.tabs[2].id = "T2"
    /\ lastCall.window.tabs[2].fields[1].id = "F3"
    /\ windowKey("W1") \in DOMAIN cache
    /\ Len(cache[windowKey("W1")].window.tabs[1].fields) = 2
    /\ cache[windowKey("W1")].window.tabs[1].fields[2].id = "F2"

NoDisplayLogic(window) ==
    \A i \in 1..Len(window.tabs) :
       \A j \in 1..Len(window.tabs[i].fields) :
          window.tabs[i].fields[j].displayLogic = Absent

\* C20: no adapted window, returned, cached or stored by an import, has a field
\* with a display-logic expression, whether or not the external field had one.
C20_DisplayLogicDropped ==
    /\ NoDisplayLogic(lastCall.window)
    /\ \A k \in DOMAIN cache : NoDisplayLogic(cache[k].window)
    /\ \A k \in DOMAIN windowData : NoDisplayLogic(windowData[k])

\* W1, whose field F2 has the expression @F1@='LOW', is cached and was imported
C20_ExpressionFieldAdapted ==
    /\ DocA.tabs[1].fields[2].displayLogic = "@F1@='LOW'"
    /\ windowKey("W1") \in DOMAIN cache
    /\ cache[windowKey("W1")].window.tabs[1].fields[2].id = "F2"
    /\ cache[windowKey("W1")].window.tabs[1].fields[2].displayLogic = Absent
    /\ "W1" \in DOMAIN windowData
    /\ windowData["W1"].tabs[1].fields[2].displayLogic = Absent

---------------------------------------------------------------------------
(* Properties of the App when the provider is swapped (SpecApp) *)

\* a call resumes and leaves what the App shows as it was
ShownUnchanged ==
    /\ windowDef' = windowDef
    /\ activeWindowId' = activeWindowId
    /\ error' = error

\* C12 as stated: a getWindowDefinition or getAvailableWindows call issued against
\* a provider that has since been replaced settles without setting the window
\* definition, the active window id or the load error.
C12_SupersededResultsDiscarded ==
    [][ /\ \A l \in loads : \A r \in LoadResponses(l) :
              l.provider # provider /\ LoadDone(l, r) => ShownUnchanged
        /\ \A p \in discovers : \A r \in DiscoverResponses(p) :
              p # provider /\ DiscoverDone(p, r) => ShownUnchanged
      ]_vars

---------------------------------------------------------------------------
(* Properties of the import pipeline (SpecImport) *)

\* the place of a stage in the pipeline, by the stage name of its records
StageRank(stage) ==
    CASE stage = "import_start" -> 0
      [] stage = "file_access_check" -> 1
      [] stage = "content_reading" -> 2
      [] stage = "json_parsing" -> 3
      [] stage = "structure_validation" -> 4
      [] stage \in {"windowid_extraction", "windowid_analysis"} -> 5
      [] stage = "metadata_adaptation" -> 6
      [] stage = "data_storage" -> 7
      [] stage = "reference_extraction" -> 8
      [] OTHER -> 9

StagesOf(log) == { StageRank(log[i].stage) : i \in 1..Len(log) }

InPipelineOrder(log) ==
    \A i, j \in 1..Len(log) : i < j => StageRank(log[i].stage) <= StageRank(log[j].stage)

\* the log of a failed run: every stage up to the failing one has its records, the
\* failing stage's last record says success false, and nothing follows it but the
\* import_failed record
AbortedAtFirstFailure(log) ==
    /\ Len(log) >= 3
    /\ log[Len(log)] = Diag("import_failed", FALSE)
    /\ ~log[Len(log) - 1].success
    /\ \A i \in 1..(Len(log) - 2) : log[i].success
    /\ StagesOf(SubSeq(log, 1, Len(log) - 1))
          = 0..StageRank(log[Len(log) - 1].stage)

\* the log of a run that completed: every stage has its records
RanEveryStage(log) ==
    /\ \A i \in 1..Len(log) : log[i].success
    /\ StagesOf(log) = 0..9
    /\ log[Len(log)].stage = "import_complete"

\* nothing can be read from the provider that could not be read before
NothingStored ==
    /\ windowData' = windowData
    /\ referenceData' = referenceData
    /\ \A i \in ImportReferenceIds :
          LET after == jsonReferenceValues(embeddedReferences', referenceData', i)
          IN  after # <<>>
                 => after = jsonReferenceValues(embeddedReferences, referenceData, i)

LogFollowsPipeline ==
    \A input \in ImportInputs :
       ImportJSONTemplate(input)
          => /\ InPipelineOrder(importDiagnostics')
             /\ IF lastCall'.outcome = "return"
                THEN RanEveryStage(importDiagnostics')
                ELSE AbortedAtFirstFailure(importDiagnostics')

\* C14 as stated: the stages run in the fixed order, each appending its records to
\* the log; the first failing stage ends the run, so that no later stage logs
\* anything, and a run that failed before the storage stage has stored no window
\* and no reference.
C14_StagesInOrderAbortStoresNothing ==
    [][ /\ LogFollowsPipeline
        /\ \A input \in ImportInputs :
              ImportJSONTemplate(input) /\ lastCall'.outcome = "throw"
                 => NothingStored
      ]_vars

\* C15 as stated: a failing import has the failing stage's record with success
\* false in the log before it throws, throws one error, and that error carries the
\* diagnostic log.
C15_ErrorCarriesCompletedLog ==
    [][ \A input \in ImportInputs :
           ImportJSONTemplate(input)
              => /\ importError'.thrown = (lastCall'.outcome = "throw")
                 /\ importError'.thrown
                       => /\ AbortedAtFirstFailure(importDiagnostics')
                          /\ importError'.diagnostics = importDiagnostics'
      ]_vars

\* C16: importing a document without a tabs array fails in the structural
\* validation: the log ends with that stage's failure record and the import_failed
\* record, both with success false; extraction, adaptation, storage and reference
\* extraction leave no record and no trace in the provider or the adapter.
C16_MissingTabsFailsValidation ==
    [][ \A input \in ImportInputs :
           ImportJSONTemplate(input) /\ input.parseable /\ ~input.template.hasTabs
              => LET log == importDiagnostics'
                 IN  /\ lastCall'.outcome = "throw"
                     /\ log[Len(log) - 1] = Diag("structure_validation", FALSE)
                     /\ ~log[Len(log)].success
                     /\ StagesOf(SubSeq(log, 1, Len(log) - 1)) = 0..4
                     /\ windowData' = windowData
                     /\ referenceData' = referenceData
                     /\ embeddedReferences' = embeddedReferences
      ]_vars

\* after W1 was imported, a document with an id, a name and no tabs array was
\* refused by the validation
C16_TabsMissingAfterImport ==
    /\ lastCall.op = "importJSONTemplate"
    /\ lastCall.outcome = "throw"
    /\ importError.message =
          "Failed to import JSON template: Template missing required tabs array"
    /\ importDiagnostics[Len(importDiagnostics) - 1] = Diag("structure_validation", FALSE)
    /\ ~importDiagnostics[Len(importDiagnostics)].success
    /\ DOMAIN windowData = {"W1"}
    /\ "F1_EMBEDDED_REF" \in DOMAIN embeddedReferences

\* a document that passes for structurally valid but for its missing id
NameOnly(template) ==
    /\ template.windowId = Absent
    /\ template.id = Absent
    /\ template.name = "Site Audit"
    /\ template.hasTabs
    /\ invalidTabs(template) = {}

\* C17 as stated: the id is windowId, else id, else the slug of name; a valid
\* document named "Site Audit" without id and windowId is imported under
\* SITE_AUDIT and can be retrieved under that id.
C17_NameOnlyImportedUnderSlug ==
    [][ \A input \in ImportInputs :
           ImportJSONTemplate(input) /\ input.parseable /\ NameOnly(input.template)
              => /\ lastCall'.outcome = "return"
                 /\ lastCall'.id = "SITE_AUDIT"
                 /\ "SITE_AUDIT" \in DOMAIN windowData'
                 /\ windowData'["SITE_AUDIT"] = lastCall'.window
      ]_vars

\* C18 as stated: after an import on a provider that has imported before, the
\* provider holds the window and the references of the new document only, and the
\* log holds the records of the new import only.
C18_ReimportReplacesEverything ==
    [][ \A input \in ImportInputs :
           ImportJSONTemplate(input) /\ lastCall'.outcome = "return"
              => /\ DOMAIN windowData' = {lastCall'.id}
                 /\ referenceData' = extractReferenceData(input.template.tabs, EmptyMap)
                 /\ importDiagnostics' = importStages(input).log
      ]_vars

\* a document the adapter is to refuse: no tabs array, a tab without a fields array,
\* or a field without fieldId and id
Malformed(doc) ==
    \/ ~doc.hasTabs
    \/ \E i \in 1..Len(doc.tabs) :
          \/ ~doc.tabs[i].hasFields
          \/ \E j \in 1..Len(doc.tabs[i].fields) :
                OrElse(doc.tabs[i].fields[j].fieldId, doc.tabs[i].fields[j].id) = Absent

EveryFieldHasId(window) ==
    \A i \in 1..Len(window.tabs) :
       \A j \in 1..Len(window.tabs[i].fields) : window.tabs[i].fields[j].id # Absent

\* C21 as stated: adaptWindowDefinition raises for a document without a tabs array,
\* with a tab without a fields array or with a field without fieldId and id, and
\* never returns a window that keeps an id-less field.
C21_MalformedInputFailsFast ==
    [][ \A input \in ImportInputs :
           ImportJSONTemplate(input) /\ reachedAdaptation(input)
              => /\ Malformed(input.template) => lastCall'.outcome = "throw"
                 /\ lastCall'.outcome = "return" => EveryFieldHasId(lastCall'.window)
      ]_vars

\* C22 as stated: a field whose reference carries its own id is adapted to a field
\* whose reference has that id unchanged; and every adapted reference carries the
\* converted inline values, which for a generated id are also the list stored in
\* the static map under that id.
C22_ReferenceIdKeptValuesMaterialized ==
    [][ \A input \in ImportInputs :
           ImportJSONTemplate(input) /\ lastCall'.outcome = "return"
              => \A p \in FieldPositions(input.template) :
                    LET external == input.template.tabs[p[1]].fields[p[2]]
                        adapted == lastCall'.window.tabs[p[1]].fields[p[2]]
                    IN  /\ external.reference.present /\ external.reference.id # Absent
                              => /\ adapted.reference.present
                                 /\ adapted.reference.id = external.reference.id
                        /\ adapted.reference.present
                              => /\ adapted.reference.values =
                                       convertValues(external.reference.values)
                                 /\ external.reference.id = Absent
                                       => /\ adapted.reference.id
                                                \in DOMAIN embeddedReferences'
                                          /\ embeddedReferences'[adapted.reference.id]
                                                = adapted.reference.values
      ]_vars

\* two value lists have the same entries in the same order, by key
SameKeys(a, b) ==
    /\ Len(a) = Len(b)
    /\ \A k \in 1..Len(a) : a[k].key = b[k].key

\* the reference ids that the fields of a window carry
ExposedIds(window) ==
    { window.tabs[p[1]].fields[p[2]].reference.id :
         p \in { q \in FieldPositions(window) :
                    window.tabs[q[1]].fields[q[2]].reference.present } }

\* the value lists that the fields of a window carry under the reference id
CarriedUnder(window, referenceId) ==
    { window.tabs[p[1]].fields[p[2]].reference.values :
         p \in { q \in FieldPositions(window) :
                    /\ window.tabs[q[1]].fields[q[2]].reference.present
                    /\ window.tabs[q[1]].fields[q[2]].reference.id = referenceId } }

\* C28 as stated: an import stores the inline values under the reference id that
\* the adapted field exposes, and for every window the JSON provider holds,
\* getReferenceValues with the id an adapted field carries returns that field's
\* values, whatever was imported or adapted in between.
C28_HeldWindowsResolveTheirIds ==
    [][ /\ \A input \in ImportInputs :
              ImportJSONTemplate(input) /\ lastCall'.outcome = "return"
                 => ExposedIds(lastCall'.window) \subseteq DOMAIN referenceData'
        /\ \A i \in ImportReferenceIds :
              JSONGetReferenceValues(i)
                 => \A w \in DOMAIN windowData :
                       \A values \in CarriedUnder(windowData[w], i) :
                          SameKeys(lastCall'.values, values)
      ]_vars

---------------------------------------------------------------------------
(* Properties of the reference lookups (SpecLookup) *)

LookupIds == {"R1", "F1_EMBEDDED_REF", "CONDITION_LIST"}

LookupOps == {"getReferenceValues", "APIDataProvider.getReferenceValues",
              "MockDataProvider.getReferenceValues",
              "JSONFileDataProvider.getReferenceValues"}

\* the call returned [] and left every cache and store as it was
EmptyAndNothingStored ==
    /\ lastCall'.outcome = "return"
    /\ lastCall'.values = <<>>
    /\ cache' = cache
    /\ apiCache' = apiCache
    /\ referenceData' = referenceData

\* C23: getReferenceValues never throws; for an id the provider does not know (not
\* in Mock's table, not imported, not in the static map, or answered by the server
\* with a non-2xx response or a failed fetch) it returns the empty list and stores
\* nothing in the provider's cache.
C23_UnknownReferenceYieldsEmptyList ==
    [][ /\ lastCall'.op \in LookupOps => lastCall'.outcome # "throw"
        /\ \A i \in LookupIds :
              /\ MockGetReferenceValues(i) /\ i \notin DOMAIN mockReferences
                    => EmptyAndNothingStored
              /\ ( /\ JSONGetReferenceValues(i)
                   /\ i \notin DOMAIN embeddedReferences
                   /\ i \notin DOMAIN referenceData )
                    => EmptyAndNothingStored
              /\ ( /\ GetReferenceValuesCall(i)
                   /\ ~cacheHit(cache, refKey(i), now)
                   /\ isEmbeddedReference(i)
                   /\ i \notin DOMAIN embeddedReferences )
                    => EmptyAndNothingStored
              /\ \A r \in Failures :
                    /\ GetReferenceValuesResponse(i, r) => EmptyAndNothingStored
                    /\ APIGetReferenceValuesResponse(i, r) => EmptyAndNothingStored
      ]_vars

\* the Remote-API provider's fetch of R1 was answered non-2xx and the call returned
\* [] and stored nothing, while the External provider holds R1 in its own cache
C23_FailedLookupStoredNothing ==
    /\ lastCall.op = "APIDataProvider.getReferenceValues"
    /\ lastCall.id = "R1"
    /\ lastCall.fetch
    /\ lastCall.status = HttpError
    /\ lastCall.outcome = "return"
    /\ lastCall.values = <<>>
    /\ refKey("R1") \notin DOMAIN apiCache
    /\ refKey("R1") \in DOMAIN cache
    /\ cache[refKey("R1")].values # <<>>

---------------------------------------------------------------------------
(* Properties of the monitor's and the App's timers (SpecApp) *)

\* C24: while the provider type is Mock or JSON-Import no polling interval is set,
\* whatever provider was active before, and at no time is more than one set.
C24_PollingOnlyForPollingKinds ==
    /\ providerType \in {MockDataProvider, JSONFileDataProvider} => pollTimer = 0
    /\ pollTimer <= 1

\* the provider was swapped to Mock while a health check of the External provider
\* was still in flight, and the interval of the External provider is gone
C24_SwappedAwayFromExternal ==
    /\ providerType = MockDataProvider
    /\ provider.n = 1
    /\ checks > 0
    /\ pollTimer = 0

\* C26 as stated: while the provider is Mock or JSON-Import and no health check is
\* in flight the status is connected; a health check of an earlier External
\* provider that settles after the swap does not set cached, offline or error.
C26_StaleCheckCannotOverwrite ==
    providerType \in {MockDataProvider, JSONFileDataProvider} /\ checks = 0
       => connectionStatus = "connected"

---------------------------------------------------------------------------
(* Properties of the form submission (SpecSubmit) *)

\* C25 as stated: whichever provider is active, every field a submit passes to
\* validateAllFields has no displayLogic, so that no expression taken from a window
\* definition is handed to eval.
C25_NoSubmitReachesEval == evaluated = {}

---------------------------------------------------------------------------
(* Properties of one External provider serving several windows (SpecExternal) *)

\* C27 as stated: for every window the provider holds in its cache within the TTL,
\* getReferenceValues on an embedded reference id of that window returns the list
\* materialized on the field, whatever windows were adapted in between.
C27_CachedWindowsResolveEmbedded ==
    [][ \A i \in AdapterReferenceIds :
           GetReferenceValuesCall(i)
              => \A w \in ExternalWindowIds :
                    cacheHit(cache, windowKey(w), now)
                       => \A values \in CarriedUnder(cache[windowKey(w)].window, i) :
                             lastCall'.values = values
      ]_vars

---------------------------------------------------------------------------
(* Properties of a failed window fetch (Spec) *)

\* the message contains the id
Names(message, id) ==
    \E k \in 1..Len(message) :
       /\ k + Len(id) - 1 <= Len(message)
       /\ SubSeq(message, k, k + Len(id) - 1) = id

\* C30: when the fetch of getWindowDefinition fails, by a transport error or a
\* non-2xx response, the call throws an error that names the window id, returns no
\* window (not even an expired cache entry), and leaves the cache as it was.
C30_FailedFetchThrowsCacheUntouched ==
    [][ \A w \in CacheWindowIds : \A r \in Failures :
           GetWindowDefinitionResponse(w, r)
              => /\ lastCall'.outcome = "throw"
                 /\ Names(lastCall'.message, w)
                 /\ lastCall'.window = NoWindow
                 /\ cache' = cache
      ]_vars

\* the refetch of W1 failed while the cache held an expired entry for W1, and the
\* entry is still there
C30_RefetchFailedOverExpiredEntry ==
    /\ lastCall.op = "getWindowDefinition"
    /\ lastCall.id = "W1"
    /\ lastCall.fetch
    /\ lastCall.status = NetworkError
    /\ lastCall.outcome = "throw"
    /\ lastCall.message = "Failed to load window W1: network_error"
    /\ windowKey("W1") \in DOMAIN cache
    /\ ~cacheHit(cache, windowKey("W1"), now)
    /\ cache[windowKey("W1")].window.id = "W1"

====
